---- MODULE Spec2Model ----
(***************************************************************************)
(* add_arduino_esp32_support.py: a build script that imports the host's    *)
(* construction environment and appends six preprocessor definitions to    *)
(* CPPDEFINES and three include-path templates to CPPPATH.                  *)
(*                                                                         *)
(* Two independent environments are carried side by side, so that          *)
(* statements comparing two runs of the script on different environments   *)
(* are statements about one state.                                         *)
(***************************************************************************)
EXTENDS Integers, Sequences, FiniteSets, TLC

\* ---------------------------------------------------------------- bounds
MaxInvocations == 2
MaxInitDefs == 2
MaxInitPaths == 1

\* The environments the script is run on (one script run sequence per environment).
Envs == {"envA", "envB"}

\* ------------------------------------------------- preprocessor definitions
\* A CPPDEFINES entry: a bare name, or a (name, value) tuple whose value is an
\* integer or a string (a sequence of characters).
BareDef(n) == [name |-> n, kind |-> "bare", int |-> 0, str |-> <<>>]
IntDef(n, v) == [name |-> n, kind |-> "int", int |-> v, str |-> <<>>]
StrDef(n, s) == [name |-> n, kind |-> "str", int |-> 0, str |-> s]

\* ------------------------------------------------------- the string literal
\* The literal with one backslash before each double quote instead of two.
MBEDTLS_CONFIG_FILE_source_OneBackslash ==
    << "\\", "\"",
       "m", "b", "e", "d", "t", "l", "s", "/",
       "e", "s", "p", "_", "c", "o", "n", "f", "i", "g", ".", "h",
       "\\", "\"" >>

\* The characters between the single quotes on line 11 of the script.
MBEDTLS_CONFIG_FILE_source ==
    << "\\", "\\", "\"",
       "m", "b", "e", "d", "t", "l", "s", "/",
       "e", "s", "p", "_", "c", "o", "n", "f", "i", "g", ".", "h",
       "\\", "\\", "\"" >>

\* The value of a (non-raw) Python string literal: a backslash followed by a
\* backslash or a quote stands for that character; any other backslash stays.
RECURSIVE PyStringValue(_)
PyStringValue(raw) ==
    IF raw = <<>> THEN <<>>
    ELSE IF Head(raw) = "\\" /\ Len(raw) >= 2 /\ raw[2] \in {"\\", "\"", "'"}
         THEN <<raw[2]>> \o PyStringValue(SubSeq(raw, 3, Len(raw)))
         ELSE <<Head(raw)>> \o PyStringValue(Tail(raw))

\* ------------------------------------------------------ the keyword arguments
\* HAVE_CONFIG_H given as a bare name.
CPPDEFINES_BareConfig ==
    << IntDef("ARDUINO", 200),
       IntDef("ESP32", 1),
       IntDef("ESP_PLATFORM", 1),
       IntDef("F_CPU", 240000000),
       BareDef("HAVE_CONFIG_H"),
       StrDef("MBEDTLS_CONFIG_FILE", PyStringValue(MBEDTLS_CONFIG_FILE_source)) >>

\* ESP32 and ESP_PLATFORM in the other order.
CPPDEFINES_Swapped ==
    << IntDef("ARDUINO", 200),
       IntDef("ESP_PLATFORM", 1),
       IntDef("ESP32", 1),
       IntDef("F_CPU", 240000000),
       IntDef("HAVE_CONFIG_H", 1),
       StrDef("MBEDTLS_CONFIG_FILE", PyStringValue(MBEDTLS_CONFIG_FILE_source)) >>

\* Lines 5-12: the list of (name, value) tuples.
CPPDEFINES ==
    << IntDef("ARDUINO", 200),
       IntDef("ESP32", 1),
       IntDef("ESP_PLATFORM", 1),
       IntDef("F_CPU", 240000000),
       IntDef("HAVE_CONFIG_H", 1),
       StrDef("MBEDTLS_CONFIG_FILE", PyStringValue(MBEDTLS_CONFIG_FILE_source)) >>

\* The placeholders already replaced by directories.
CPPPATH_Expanded ==
    << "/project/src",
       "/project/components/arduino/cores/esp32",
       "/project/components/arduino/variants/esp32" >>

\* Lines 13-17: the list of include-path templates.
CPPPATH ==
    << "${PROJECTSRC_DIR}",
       "${PROJECT_DIR}/components/arduino/cores/esp32",
       "${PROJECT_DIR}/components/arduino/variants/esp32" >>

\* A third keyword, for a variable the script has no business with.
Kwargs_WithFlags ==
    [CPPDEFINES |-> CPPDEFINES, CPPPATH |-> CPPPATH, CCFLAGS |-> <<"-DARDUINO">>]

\* The keyword arguments of the one env.Append call.
Kwargs == [CPPDEFINES |-> CPPDEFINES, CPPPATH |-> CPPPATH]

\* ------------------------------------------------------------------ Append
RECURSIVE Unique(_, _)
Unique(orig, added) ==
    IF added = <<>> THEN orig
    ELSE IF \E i \in 1..Len(orig) : orig[i] = Head(added)
         THEN Unique(orig, Tail(added))
         ELSE Unique(Append(orig, Head(added)), Tail(added))

\* AppendUnique in place of Append: values already present are not added.
EnvAppend_Unique(e, kw) ==
    [k \in DOMAIN e |-> IF k \in DOMAIN kw THEN Unique(e[k], kw[k]) ELSE e[k]]

\* Prepend in place of Append.
EnvAppend_Prepend(e, kw) ==
    [k \in DOMAIN e |-> IF k \in DOMAIN kw THEN kw[k] \o e[k] ELSE e[k]]

\* Only the first keyword is applied.
EnvAppend_DefinesOnly(e, kw) ==
    [k \in DOMAIN e |-> IF k = "CPPDEFINES" /\ k \in DOMAIN kw THEN e[k] \o kw[k] ELSE e[k]]

\* The added definitions depend on what the environment holds: a macro the
\* environment already defines is left out.
EnvAppend_SkipDefined(e, kw) ==
    [k \in DOMAIN e |->
        IF k \notin DOMAIN kw THEN e[k]
        ELSE IF k = "CPPDEFINES"
             THEN e[k] \o SelectSeq(kw[k],
                     LAMBDA d : \A i \in 1..Len(e[k]) : e[k][i].name # d.name)
             ELSE e[k] \o kw[k]]

\* env.Append(**kw): each keyword's values are added at the end of the
\* construction variable of that name; the other variables are left alone.
EnvAppend(e, kw) ==
    [k \in DOMAIN e |-> IF k \in DOMAIN kw THEN e[k] \o kw[k] ELSE e[k]]

\* ------------------------------------------------------------------- state
\* env[x]: construction environment x, variable name -> sequence of values
\* supplied[x]: environment x as the host first supplied it
\* runs[x]: completed runs of the script on environment x
\* pc[x]: "idle" (between runs) or "imported" (after Import("env"))
VARIABLES env, supplied, runs, pc

vars == <<env, supplied, runs, pc>>

\* Entries and paths the host may have put in the environment beforehand.
HostDefs == {IntDef("ARDUINO", 100), BareDef("NDEBUG")}
HostPaths == {"/usr/include"}
HostFlags == {<<>>, <<"-Os">>}

SeqsUpTo(S, n) == UNION {[1..m -> S] : m \in 0..n}

HostEnvs ==
    [CPPDEFINES : SeqsUpTo(HostDefs, MaxInitDefs),
     CPPPATH : SeqsUpTo(HostPaths, MaxInitPaths),
     CCFLAGS : HostFlags]

Init ==
    /\ env \in [Envs -> HostEnvs]
    /\ supplied = env
    /\ runs = [x \in Envs |-> 0]
    /\ pc = [x \in Envs |-> "idle"]

\* Line 1: Import("env") binds the host's environment in the script.
ImportEnv(x) ==
    /\ pc[x] = "idle"
    /\ runs[x] < MaxInvocations
    /\ pc' = [pc EXCEPT ![x] = "imported"]
    /\ UNCHANGED <<env, supplied, runs>>

\* Lines 4-18: the env.Append call, after which the script ends.
AppendCall(x) ==
    /\ pc[x] = "imported"
    /\ env' = [env EXCEPT ![x] = EnvAppend(env[x], Kwargs)]
    /\ runs' = [runs EXCEPT ![x] = runs[x] + 1]
    /\ pc' = [pc EXCEPT ![x] = "idle"]
    /\ UNCHANGED supplied

Next == \E x \in Envs : ImportEnv(x) \/ AppendCall(x)

Spec == Init /\ [][Next]_vars

\* ----------------------------------------------------------- what is stated
\* The documented values, written out independently of the script's literals.
HeaderPath ==
    << "m", "b", "e", "d", "t", "l", "s", "/",
       "e", "s", "p", "_", "c", "o", "n", "f", "i", "g", ".", "h" >>

\* "mbedtls/esp_config.h" between two double quotes (22 characters).
QuotedHeaderPath == <<"\"">> \o HeaderPath \o <<"\"">>

\* The same with a backslash before each double quote (24 characters).
EscapedQuotedHeaderPath == <<"\\", "\"">> \o HeaderPath \o <<"\\", "\"">>

SixDefinitions ==
    << [name |-> "ARDUINO", kind |-> "int", int |-> 200, str |-> <<>>],
       [name |-> "ESP32", kind |-> "int", int |-> 1, str |-> <<>>],
       [name |-> "ESP_PLATFORM", kind |-> "int", int |-> 1, str |-> <<>>],
       [name |-> "F_CPU", kind |-> "int", int |-> 240000000, str |-> <<>>],
       [name |-> "HAVE_CONFIG_H", kind |-> "int", int |-> 1, str |-> <<>>],
       [name |-> "MBEDTLS_CONFIG_FILE", kind |-> "str", int |-> 0,
        str |-> EscapedQuotedHeaderPath] >>

ThreePaths ==
    << "${PROJECTSRC_DIR}",
       "${PROJECT_DIR}/components/arduino/cores/esp32",
       "${PROJECT_DIR}/components/arduino/variants/esp32" >>

AppendedKeys == {"CPPDEFINES", "CPPPATH"}

\* What environment x holds beyond what the host supplied.
Added(x, key) ==
    SubSeq(env[x][key], Len(supplied[x][key]) + 1, Len(env[x][key]))

\* The value of the sixth definition the first run added to environment x.
StoredConfigFile(x) == env[x].CPPDEFINES[Len(supplied[x].CPPDEFINES) + 6].str

IsPrefix(s, t) == Len(s) <= Len(t) /\ \A i \in 1..Len(s) : t[i] = s[i]

\* C1: after one run of the script the definitions sequence is the supplied
\* sequence (empty or not) followed by exactly the six (name, value) entries
\* ARDUINO=200, ESP32=1, ESP_PLATFORM=1, F_CPU=240000000, HAVE_CONFIG_H=1,
\* MBEDTLS_CONFIG_FILE=<quoted mbedtls/esp_config.h>, in this order.
C1_DefinitionsAfterOneRun ==
    \A x \in Envs :
        runs[x] = 1 => env[x].CPPDEFINES = supplied[x].CPPDEFINES \o SixDefinitions

C1_Witness ==
    /\ runs["envA"] = 1 /\ pc["envA"] = "idle" /\ supplied["envA"].CPPDEFINES = <<>>
    /\ runs["envB"] = 1 /\ pc["envB"] = "idle" /\ Len(supplied["envB"].CPPDEFINES) = 2

\* C2: after one run of the script the include-path sequence is the supplied
\* sequence followed by exactly the three template strings, in order, with
\* their ${...} placeholders unexpanded.
C2_PathsAfterOneRun ==
    \A x \in Envs :
        runs[x] = 1 => env[x].CPPPATH = supplied[x].CPPPATH \o ThreePaths

C2_Witness ==
    /\ runs["envA"] = 1 /\ pc["envA"] = "idle"
    /\ supplied["envA"].CPPPATH = <<"/usr/include">>
    /\ Len(env["envA"].CPPPATH) = 4
    /\ runs["envB"] = 1 /\ supplied["envB"].CPPPATH = <<>>

\* C3 as stated: the value stored for MBEDTLS_CONFIG_FILE is character for
\* character double-quote, mbedtls/esp_config.h, double-quote.
C3_StoredValueIsTableValue ==
    \A x \in Envs : runs[x] >= 1 => StoredConfigFile(x) = QuotedHeaderPath

\* C3 amended: the value stored for MBEDTLS_CONFIG_FILE is the 24 characters
\* backslash, double-quote, mbedtls/esp_config.h, backslash, double-quote:
\* the table's value with a backslash before each of its two double quotes.
C3_StoredValueIsEscaped ==
    \A x \in Envs :
        runs[x] >= 1 =>
            /\ StoredConfigFile(x) = EscapedQuotedHeaderPath
            /\ Len(StoredConfigFile(x)) = 24
            /\ SelectSeq(StoredConfigFile(x), LAMBDA c : c # "\\") = QuotedHeaderPath

C3_Witness ==
    /\ runs["envA"] >= 1
    /\ env["envA"].CPPDEFINES[Len(supplied["envA"].CPPDEFINES) + 6].name
          = "MBEDTLS_CONFIG_FILE"
    /\ StoredConfigFile("envA")[1] = "\\"

\* C4: append-only. Every step leaves each entry of the definitions sequence
\* and of the include-path sequence at its index with its value; nothing is
\* removed, reordered, overwritten or deduplicated, also not a supplied
\* definition whose name is one of the six (a prior ARDUINO=100 stays).
C4_AppendOnly ==
    [][\A x \in Envs : \A key \in AppendedKeys :
            IsPrefix(env[x][key], env'[x][key])]_vars

C4_Witness ==
    /\ runs["envA"] = 2
    /\ supplied["envA"].CPPDEFINES = <<IntDef("ARDUINO", 100), BareDef("NDEBUG")>>
    /\ env["envA"].CPPDEFINES[1] = IntDef("ARDUINO", 100)
    /\ env["envA"].CPPDEFINES[3] = IntDef("ARDUINO", 200)
    /\ env["envA"].CPPDEFINES[9] = IntDef("ARDUINO", 200)
    /\ env["envA"].CPPPATH[1] = "/usr/include"

\* C5: no deduplication. After n runs the sequences have lengths |D|+6n and
\* |I|+3n, and after two runs they are D ++ S6 ++ S6 and I ++ S3 ++ S3.
C5_TwiceAppendsTwice ==
    \A x \in Envs :
        /\ Len(env[x].CPPDEFINES) = Len(supplied[x].CPPDEFINES) + 6 * runs[x]
        /\ Len(env[x].CPPPATH) = Len(supplied[x].CPPPATH) + 3 * runs[x]
        /\ runs[x] = 2 =>
              /\ env[x].CPPDEFINES
                    = supplied[x].CPPDEFINES \o SixDefinitions \o SixDefinitions
              /\ env[x].CPPPATH = supplied[x].CPPPATH \o ThreePaths \o ThreePaths

C5_Witness ==
    /\ runs["envB"] = 2 /\ pc["envB"] = "idle"
    /\ Len(env["envB"].CPPDEFINES) = Len(supplied["envB"].CPPDEFINES) + 12
    /\ Len(env["envB"].CPPPATH) = Len(supplied["envB"].CPPPATH) + 6

\* C6: frame. A step changes only CPPDEFINES and CPPPATH of the environment
\* the script runs on: every other construction variable keeps its value, no
\* variable appears or disappears, and the other environment is untouched.
C6_Frame ==
    [][\A x \in Envs :
            /\ DOMAIN env'[x] = DOMAIN env[x]
            /\ \A k \in DOMAIN env[x] \ AppendedKeys : env'[x][k] = env[x][k]
            /\ pc[x] # "imported" => env'[x] = env[x]]_vars

C6_Witness ==
    /\ runs["envA"] = 1 /\ pc["envA"] = "idle"
    /\ env["envA"].CCFLAGS = <<"-Os">>
    /\ runs["envB"] = 0 /\ env["envB"] = supplied["envB"]
    /\ env["envA"] # supplied["envA"]

\* C7: the call cannot fail or branch. Once the environment is imported the
\* Append step can always be taken, and whenever the script is not in the
\* middle of a run both appends have been made in full: the added definitions
\* come in whole groups of six, the added paths in whole groups of three, and
\* there are as many groups of one as of the other.
C7_BothAppendsOrNone ==
    \A x \in Envs :
        /\ pc[x] = "imported" => ENABLED AppendCall(x)
        /\ pc[x] = "idle" =>
              /\ Len(Added(x, "CPPDEFINES")) % 6 = 0
              /\ Len(Added(x, "CPPPATH")) % 3 = 0
              /\ Len(Added(x, "CPPDEFINES")) \div 6 = Len(Added(x, "CPPPATH")) \div 3
              /\ Len(Added(x, "CPPPATH")) \div 3 = runs[x]

C7_Witness ==
    /\ pc["envA"] = "idle" /\ runs["envA"] = 1
    /\ Len(Added("envA", "CPPDEFINES")) = 6
    /\ Len(Added("envA", "CPPPATH")) = 3
    /\ pc["envB"] = "imported"

\* C8: input independence. Two environments that have been through the same
\* number of runs have had the same entries added, whatever definitions,
\* include paths or other variables each was supplied with.
C8_SameSuffixWhateverTheInput ==
    \A x, y \in Envs :
        runs[x] = runs[y] =>
            /\ Added(x, "CPPDEFINES") = Added(y, "CPPDEFINES")
            /\ Added(x, "CPPPATH") = Added(y, "CPPPATH")

C8_Witness ==
    /\ runs["envA"] = 1 /\ runs["envB"] = 1
    /\ supplied["envA"].CPPDEFINES = <<IntDef("ARDUINO", 100)>>
    /\ supplied["envB"].CPPDEFINES = <<>>
    /\ supplied["envA"].CPPPATH # supplied["envB"].CPPPATH
    /\ supplied["envA"].CCFLAGS # supplied["envB"].CCFLAGS

\* C9: every entry a run adds to the definitions sequence is a (name, value)
\* pair, never a bare name; ARDUINO, ESP32, ESP_PLATFORM, F_CPU and
\* HAVE_CONFIG_H carry the integers 200, 1, 1, 240000000 and 1, only
\* MBEDTLS_CONFIG_FILE carries a string, and the six names of one run are
\* pairwise distinct.
C9_PairsWithTypedValues ==
    \A x \in Envs :
        runs[x] >= 1 =>
            LET a == SubSeq(Added(x, "CPPDEFINES"), 1, 6)
                IntValue(n) == {a[i].int : i \in {j \in 1..6 : a[j].name = n /\ a[j].kind = "int"}}
            IN  /\ \A i \in 1..6 : a[i].kind \in {"int", "str"}
                /\ IntValue("ARDUINO") = {200}
                /\ IntValue("ESP32") = {1}
                /\ IntValue("ESP_PLATFORM") = {1}
                /\ IntValue("F_CPU") = {240000000}
                /\ IntValue("HAVE_CONFIG_H") = {1}
                /\ \A i \in 1..6 : a[i].kind = "str" <=> a[i].name = "MBEDTLS_CONFIG_FILE"
                /\ \A i, j \in 1..6 : a[i].name = a[j].name => i = j

C9_Witness ==
    /\ runs["envB"] >= 1
    /\ Added("envB", "CPPDEFINES")[4].int = 240000000
    /\ Added("envB", "CPPDEFINES")[6].kind = "str"
    /\ \E i \in 1..Len(supplied["envB"].CPPDEFINES) :
          supplied["envB"].CPPDEFINES[i].kind = "bare"

====
